---- MODULE Spec2Model ----
(***************************************************************************)
(* Model of gps_tx_rx_loopback.py: the transmit loop (tx_thread_fn), the   *)
(* receive loop (rx_thread_fn), the coordinator (main, from the start of   *)
(* the two threads onwards) and the correlation analysis (fft_xcorr,       *)
(* analyze_correlation).                                                   *)
(*                                                                         *)
(* Samples of the transmit buffer are identified by their position, so     *)
(* that the order of what is sent can be compared with the buffer.  The    *)
(* capture file is modelled by its length in bytes.  Complex samples of    *)
(* the analysis are Gaussian integers <<re, im>>; magnitudes are compared  *)
(* by their squares, which orders them as numpy.abs does.                  *)
(*                                                                         *)
(* Each thread is followed until its function returns.  recv and the rest  *)
(* of a receive iteration are one step; a blocked send or recv is a thread *)
(* resting at "send" or "recv".  The end of the process after main has     *)
(* ended is not a step of the model.                                       *)
(***************************************************************************)
EXTENDS Integers, Sequences, FiniteSets, TLC

\* ---------------------------------------------------------------- bounds
MaxLen == 3          \* longest transmit buffer (samples)
MaxChunk == 2        \* largest CHUNK_SAMPLES
MaxSends == 3        \* data chunks sent before the operator's stop
MaxRecvs == 2        \* recv calls made before the operator's stop
MaxRef == 3          \* longest reference sequence given to the analysis
MaxCap == 4          \* longest captured sequence given to the analysis

\* ------------------------------------------------------ program constants
BytesPerSample == 8
TX_REF_SAMPLES == 100000
CORR_SEARCH_SAMPLES == 1000000

VARIABLES
    \* user settings and loaded data
    LOOP_FILE, CHUNK_SAMPLES, iq_data,
    \* what main finds at startup: whether FILE_PATH exists, the format tag,
    \* the number of items of that format in the file (complex64 values for
    \* fc32, int16 values for sc16), whether the device can be opened
    path_exists, FILE_FORMAT, file_items, usrp_opens,
    \* shared
    stop_event,
    \* tx_thread_fn
    tx_pc, idx, first, md_start_of_burst, md_end_of_burst, tx_log,
    \* rx_thread_fn; rx_recvs counts the recv calls made and rx_valid sums
    \* the counts of those that returned with error code none
    rx_pc, rx_recvs, rx_valid, file_exists, file_bytes,
    \* main; at_stop records how many data chunks had been handed to send,
    \* how many recv calls had been made and how long the capture file was
    \* when the stop flag was set
    main_pc, tx_join, rx_join, rx_data_size, report, at_stop,
    \* one call of analyze_correlation
    an_pc, tx_samples, rx_samples, result

startVars == <<path_exists, FILE_FORMAT, file_items, usrp_opens>>

streamVars == <<LOOP_FILE, CHUNK_SAMPLES, iq_data, startVars, stop_event,
                tx_pc, idx, first, md_start_of_burst, md_end_of_burst, tx_log,
                rx_pc, rx_recvs, rx_valid, file_exists, file_bytes,
                main_pc, tx_join, rx_join, rx_data_size, report, at_stop>>

anVars == <<an_pc, tx_samples, rx_samples, result>>

vars == <<streamVars, anVars>>

settingVars == <<LOOP_FILE, CHUNK_SAMPLES, iq_data, startVars>>
txVars == <<tx_pc, idx, first, md_start_of_burst, md_end_of_burst, tx_log>>
rxVars == <<rx_pc, rx_recvs, rx_valid, file_exists, file_bytes>>
mainVars == <<main_pc, tx_join, rx_join, rx_data_size, report, at_stop>>

Min(a, b) == IF a <= b THEN a ELSE b
Max(a, b) == IF a >= b THEN a ELSE b

\* ------------------------------------------------------------ tx_thread_fn
total == Len(iq_data)

\* line 66
remaining_of(i) == total - i

\* a wrap that restarts one sample into the buffer
cursor_of_wrap_late(i) == IF remaining_of(i) <= 0 /\ LOOP_FILE THEN 1 ELSE i

\* lines 67-70: the cursor the iteration works with
cursor_of(i) == IF remaining_of(i) <= 0 /\ LOOP_FILE THEN 0 ELSE i

\* line 73
chunk_size_of(i) == Min(CHUNK_SAMPLES, remaining_of(cursor_of(i)))

\* line 74: iq_data[idx: idx + chunk_size]
slice(s, lo, hi) == SubSeq(s, Min(lo, Len(s)) + 1, Min(hi, Len(s)))

\* a slice that starts one sample late
chunk_of_shifted(i) == slice(iq_data, i + 1, i + 1 + chunk_size_of(i))

chunk_of(i) == slice(iq_data, i, i + chunk_size_of(i))

DataSends == SelectSeq(tx_log, LAMBDA r : ~r.end_of_burst)

\* a loop exit that returns without running the finally clause
tx_exit_pc_no_flush == "done"

\* line 65, 72, 89: however the loop is left, the finally clause runs next
tx_exit_pc == "finally"

\* a loop that looks at the flag only when a pass over the buffer has ended
tx_sees_stop_at_wrap(i) == stop_event /\ remaining_of(i) <= 0

\* line 65: the flag is read once per iteration, before the chunk is cut
tx_sees_stop(i) == stop_event

\* line 65 - 76: the loop test, the wrap or break, the slice
tx_loop_check ==
    /\ tx_pc = "loop"
    /\ \/ stop_event
       \/ remaining_of(idx) <= 0 /\ ~LOOP_FILE
       \/ Len(DataSends) < MaxSends
    /\ IF tx_sees_stop(idx)
         THEN /\ tx_pc' = tx_exit_pc
              /\ idx' = idx
         ELSE IF remaining_of(idx) <= 0 /\ ~LOOP_FILE
                THEN /\ tx_pc' = tx_exit_pc
                     /\ idx' = idx
                ELSE /\ tx_pc' = "send"
                     /\ idx' = cursor_of(idx)
    /\ UNCHANGED <<first, md_start_of_burst, md_end_of_burst, tx_log>>
    /\ UNCHANGED <<settingVars, stop_event, rxVars, mainVars, anVars>>

SendRecord(data, ok) ==
    [data |-> data, start_of_burst |-> md_start_of_burst,
     end_of_burst |-> md_end_of_burst, ok |-> ok]

\* what follows a send that raised: the except clause of line 87 is outside
\* the while loop
after_send_exception == "finally"

\* line 77 - 86 (send returns) and 87 - 88 (send raises)
tx_send ==
    /\ tx_pc = "send"
    /\ \E ok \in BOOLEAN :
         /\ tx_log' = Append(tx_log, SendRecord(chunk_of(idx), ok))
         /\ IF ok
              THEN /\ md_start_of_burst' = (IF first THEN FALSE ELSE md_start_of_burst)
                   /\ first' = FALSE
                   /\ idx' = idx + chunk_size_of(idx)
                   /\ tx_pc' = "loop"
              ELSE /\ UNCHANGED <<md_start_of_burst, first, idx>>
                   /\ tx_pc' = after_send_exception
    /\ UNCHANGED md_end_of_burst
    /\ UNCHANGED <<settingVars, stop_event, rxVars, mainVars, anVars>>

\* line 89 - 94: the flush; a failure of this send is swallowed
tx_finally ==
    /\ tx_pc = "finally"
    /\ md_end_of_burst' = TRUE
    /\ \E ok \in BOOLEAN :
         tx_log' = Append(tx_log, [data |-> <<>>,
                                   start_of_burst |-> md_start_of_burst,
                                   end_of_burst |-> TRUE, ok |-> ok])
    /\ tx_pc' = "done"
    /\ UNCHANGED <<idx, first, md_start_of_burst>>
    /\ UNCHANGED <<settingVars, stop_event, rxVars, mainVars, anVars>>

tx_thread_fn == tx_loop_check \/ tx_send \/ tx_finally

\* ------------------------------------------------------------ rx_thread_fn
\* RXMetadataErrorCode: none, and one code standing for the error indicators
\* (the loop only tests the code against none, line 106)
ErrorCodes == {"none", "overflow"}

\* line 99: open(out_filename, "wb") creates or truncates the file
rx_open ==
    /\ rx_pc = "open"
    /\ file_exists' = TRUE
    /\ file_bytes' = 0
    /\ rx_pc' = "loop"
    /\ UNCHANGED <<rx_recvs, rx_valid>>
    /\ UNCHANGED <<settingVars, stop_event, txVars, mainVars, anVars>>

\* line 100; leaving the with block closes the file
rx_loop_check ==
    /\ rx_pc = "loop"
    /\ stop_event \/ rx_recvs < MaxRecvs
    /\ rx_pc' = IF stop_event THEN "done" ELSE "recv"
    /\ UNCHANGED <<rx_recvs, rx_valid, file_exists, file_bytes>>
    /\ UNCHANGED <<settingVars, stop_event, txVars, mainVars, anVars>>

\* a recv exception that ends the thread
after_recv_exception_ends == "done"

\* where the loop goes after recv raised: continue (line 105)
after_recv_exception == "loop"

\* a write that does not look at the error code
writes_samples_any_code(code, num) == num > 0

\* line 106 - 110: are the samples appended to the file
writes_samples(code, num) == code = "none" /\ num > 0

\* line 101 - 113: recv raises, or returns a count and an error code and the
\* rest of the iteration runs
rx_recv ==
    /\ rx_pc = "recv"
    /\ rx_recvs' = rx_recvs + 1
    /\ \/ /\ rx_pc' = after_recv_exception
          /\ UNCHANGED <<rx_valid, file_bytes>>
       \/ \E num \in 0..CHUNK_SAMPLES, code \in ErrorCodes :
            /\ rx_valid' = IF code = "none" THEN rx_valid + num ELSE rx_valid
            /\ file_bytes' = IF writes_samples(code, num)
                               THEN file_bytes + num * BytesPerSample
                               ELSE file_bytes
            /\ rx_pc' = "loop"
    /\ UNCHANGED file_exists
    /\ UNCHANGED <<settingVars, stop_event, txVars, mainVars, anVars>>

rx_thread_fn == rx_open \/ rx_loop_check \/ rx_recv

\* ------------------------------------------- fft_xcorr, analyze_correlation
\* complex numbers with integer parts
Czero == <<0, 0>>
cadd(x, y) == <<x[1] + y[1], x[2] + y[2]>>
csub(x, y) == <<x[1] - y[1], x[2] - y[2]>>
cmul(x, y) == <<x[1] * y[1] - x[2] * y[2], x[1] * y[2] + x[2] * y[1]>>
conj(x) == <<x[1], 0 - x[2]>>
\* np.abs(x)**2
abs2(x) == x[1] * x[1] + x[2] * x[2]

RECURSIVE pow2(_)
pow2(e) == IF e = 0 THEN 1 ELSE 2 * pow2(e - 1)

\* int(np.ceil(np.log2(x))) for x >= 1
RECURSIVE ceil_log2_from(_, _)
ceil_log2_from(x, e) == IF pow2(e) >= x THEN e ELSE ceil_log2_from(x, e + 1)
\* a logarithm rounded down instead of up
ceil_log2_rounded_down(x) ==
    IF pow2(ceil_log2_from(x, 0)) = x THEN ceil_log2_from(x, 0)
                                      ELSE ceil_log2_from(x, 0) - 1

ceil_log2(x) == ceil_log2_from(x, 0)

\* line 118 raises when na + nb - 1 <= 0: int(np.ceil(np.log2(0))) is
\* int(-inf) and int(np.ceil(np.log2(-1))) is int(nan)
analyze_raises(na, nb) == na + nb - 1 <= 0

\* line 118
fft_len(na, nb) == pow2(ceil_log2(na + nb - 1))

\* np.fft.fft(s, n) crops s to n samples or pads it with zeros; element k
\* (from 0) of that input
padded(s, n, k) == IF k < Min(Len(s), n) THEN s[k + 1] ELSE Czero

RECURSIVE xcorr_sum(_, _, _, _, _)
xcorr_sum(a, b, n, k, j) ==
    IF j = n THEN Czero
    ELSE cadd(cmul(padded(b, n, (j + k) % n), conj(padded(a, n, j))),
              xcorr_sum(a, b, n, k, j + 1))

\* line 119 - 121: element k of ifft(fft(b, n) * conj(fft(a, n))), the
\* circular cross-correlation of length n
xcorr_at(a, b, n, k) == xcorr_sum(a, b, n, k, 0)

\* line 115 - 122: corr[:(na + nb - 1)], indexed from 0
fft_xcorr(a, b) ==
    LET n == fft_len(Len(a), Len(b))
    IN  [k \in 0..(Len(a) + Len(b) - 2) |-> xcorr_at(a, b, n, k)]

\* np.argmax: the first index of the largest value
argmax(f) ==
    CHOOSE i \in DOMAIN f :
        \A j \in DOMAIN f : f[j] <= f[i] /\ (j < i => f[j] < f[i])

RECURSIVE energy(_)
\* np.sum(np.abs(s)**2)
energy(s) == IF s = <<>> THEN 0 ELSE abs2(Head(s)) + energy(Tail(s))

\* a lag taken to be the peak index itself
lag_of_peak_index(peak_idx, na) == peak_idx

\* line 134
lag_of(peak_idx, na) == peak_idx - (na - 1)

\* line 124 - 160.  n and corr_len are the transform length and the length of
\* the array fft_xcorr returned; peak_sq is peak_value squared; norm_peak and snr_db_est
\* are floating point functions of peak_sq, E_tx, E_rx_seg, seg_len and
\* noise_energy (lines 146 - 151) and are represented by those.
analyze_correlation(tx_s, rx_s) ==
    LET tx == slice(tx_s, 0, Min(Len(tx_s), TX_REF_SAMPLES))
        rx == slice(rx_s, 0, Min(Len(rx_s), CORR_SEARCH_SAMPLES))
        na == Len(tx)
        nb == Len(rx)
    IN  IF analyze_raises(na, nb) THEN [status |-> "raised"]
        ELSE
        LET corr == fft_xcorr(tx, rx)
            abs_corr == [k \in DOMAIN corr |-> abs2(corr[k])]
            peak_idx == argmax(abs_corr)
            lag == lag_of(peak_idx, na)
            start == Max(0, lag)
            end == start + na
            rx_segment == IF end <= nb THEN slice(rx, start, end)
                                       ELSE slice(rx, start, nb)
            ref == slice(tx, 0, Len(rx_segment))
        IN  IF Len(ref) # Len(rx_segment) /\ Len(ref) # 1 /\ Len(rx_segment) # 1
              THEN [status |-> "raised"]     \* line 149 cannot broadcast
              ELSE [status |-> "returned",
                    n |-> fft_len(na, nb),
                    corr_len |-> Cardinality(DOMAIN corr),
                    peak_index |-> peak_idx,
                    lag_samples |-> lag,
                    peak_sq |-> abs_corr[peak_idx],
                    E_tx |-> energy(tx),
                    start |-> start,
                    end |-> end,
                    seg_len |-> Len(rx_segment),
                    ref_len |-> Len(ref),
                    E_rx_seg |-> energy(rx_segment),
                    noise_energy |->
                        energy([k \in 1..Min(Len(ref), Len(rx_segment)) |->
                                   csub(rx_segment[k], ref[k])])]

\* the call of analyze_correlation on the two sequences
analyze ==
    /\ an_pc = "call"
    /\ result' = analyze_correlation(tx_samples, rx_samples)
    /\ an_pc' = "done"
    /\ UNCHANGED <<tx_samples, rx_samples>>
    /\ UNCHANGED streamVars

\* ------------------------------------------------------------ load_iq_file
\* a loader that does not test the parity of an sc16 file
load_iq_file_no_parity(exists, fmt, items) ==
    IF ~exists THEN [raised |-> "FileNotFoundError", size |-> 0]
    ELSE IF fmt = "fc32" THEN [raised |-> "none", size |-> items]
    ELSE IF fmt = "sc16" THEN [raised |-> "none", size |-> items \div 2]
    ELSE [raised |-> "ValueError: Unsupported FILE_FORMAT", size |-> 0]

\* line 38 - 52: the exception raised, or the number of samples returned
load_iq_file(exists, fmt, items) ==
    IF ~exists THEN [raised |-> "FileNotFoundError", size |-> 0]
    ELSE IF fmt = "fc32" THEN [raised |-> "none", size |-> items]
    ELSE IF fmt = "sc16"
           THEN IF items % 2 # 0
                  THEN [raised |-> "ValueError: sc16 file length not even",
                        size |-> 0]
                  ELSE [raised |-> "none", size |-> items \div 2]
    ELSE [raised |-> "ValueError: Unsupported FILE_FORMAT", size |-> 0]

\* -------------------------------------------------------------------- main
\* line 163 - 169: a failed load is reported and main exits with status 1
main_load ==
    /\ main_pc = "load"
    /\ LET r == load_iq_file(path_exists, FILE_FORMAT, file_items)
       IN  IF r.raised # "none"
             THEN /\ report' = r.raised
                  /\ main_pc' = "exit_1"
                  /\ iq_data' = iq_data
             ELSE /\ iq_data' = [i \in 1..r.size |-> i]
                  /\ main_pc' = "open_usrp"
                  /\ report' = report
    /\ UNCHANGED <<tx_join, rx_join, rx_data_size, at_stop>>
    /\ UNCHANGED <<LOOP_FILE, CHUNK_SAMPLES, startVars>>
    /\ UNCHANGED <<stop_event, txVars, rxVars, anVars>>

\* line 171 - 235: the device is opened, configured, and the two threads are
\* created; a failed open is reported and main exits with status 1
main_open_usrp ==
    /\ main_pc = "open_usrp"
    /\ IF usrp_opens
         THEN main_pc' = "start_tx" /\ report' = report
         ELSE main_pc' = "exit_1" /\ report' = "Failed to open USRP"
    /\ UNCHANGED <<tx_join, rx_join, rx_data_size, at_stop>>
    /\ UNCHANGED <<settingVars, stop_event, txVars, rxVars, anVars>>

\* the state main is in once the file is loaded and the device is open
Init ==
    /\ LOOP_FILE \in BOOLEAN
    /\ CHUNK_SAMPLES \in 1..MaxChunk
    /\ \E L \in 0..MaxLen : iq_data = [i \in 1..L |-> i]
    /\ path_exists = TRUE /\ FILE_FORMAT = "fc32"
    /\ file_items = Len(iq_data) /\ usrp_opens = TRUE
    /\ stop_event = FALSE
    /\ tx_pc = "idle" /\ idx = 0 /\ first = TRUE
    /\ md_start_of_burst = TRUE /\ md_end_of_burst = FALSE /\ tx_log = <<>>
    /\ rx_pc = "idle" /\ rx_recvs = 0 /\ rx_valid = 0
    /\ file_exists = FALSE /\ file_bytes = 0
    /\ main_pc = "start_tx" /\ tx_join = "none" /\ rx_join = "none"
    /\ rx_data_size = 0 /\ report = "none"
    /\ at_stop = [sends |-> 0, recvs |-> 0, bytes |-> 0]
    /\ an_pc = "idle" /\ tx_samples = <<>> /\ rx_samples = <<>>
    /\ result = [status |-> "none"]

\* line 238: tx_thread.start(); lines 55 - 62 run in the new thread
main_start_tx ==
    /\ main_pc = "start_tx"
    /\ tx_pc = "idle"
    /\ tx_pc' = "loop"
    /\ main_pc' = "start_rx"
    /\ UNCHANGED <<idx, first, md_start_of_burst, md_end_of_burst, tx_log>>
    /\ UNCHANGED <<tx_join, rx_join, rx_data_size, report, at_stop>>
    /\ UNCHANGED <<settingVars, stop_event, rxVars, anVars>>

\* line 239: rx_thread.start(); main then enters the try of line 241
main_start_rx ==
    /\ main_pc = "start_rx"
    /\ rx_pc = "idle"
    /\ rx_pc' = "open"
    /\ main_pc' = "sleep"
    /\ UNCHANGED <<rx_recvs, rx_valid, file_exists, file_bytes>>
    /\ UNCHANGED <<tx_join, rx_join, rx_data_size, report, at_stop>>
    /\ UNCHANGED <<settingVars, stop_event, txVars, anVars>>

\* the statements of main that no try block with an except KeyboardInterrupt
\* clause covers: the thread starts, the handler itself (lines 245 - 248) and
\* the analysis (lines 251 - 272)
UncoveredPcs == {"start_tx", "start_rx", "set_stop", "join_tx", "join_rx",
                 "check_file", "read_file", "analyze"}

\* line 241 - 245: the operator's interrupt; inside the try it is caught,
\* anywhere else it propagates out of main
KeyboardInterrupt ==
    /\ main_pc \in UncoveredPcs \cup {"sleep"}
    /\ main_pc' = IF main_pc = "sleep" THEN "set_stop" ELSE "interrupted"
    /\ UNCHANGED <<tx_join, rx_join, rx_data_size, report, at_stop>>
    /\ UNCHANGED <<settingVars, stop_event, txVars, rxVars, anVars>>

\* a handler that leaves the flag as it was
stop_value_unset == FALSE

\* line 246: the value the handler gives the flag
stop_value == TRUE

main_set_stop ==
    /\ main_pc = "set_stop"
    /\ stop_event' = stop_value
    /\ at_stop' = [sends |-> Len(DataSends), recvs |-> rx_recvs,
                   bytes |-> file_bytes]
    /\ main_pc' = "join_tx"
    /\ UNCHANGED <<tx_join, rx_join, rx_data_size, report>>
    /\ UNCHANGED <<settingVars, txVars, rxVars, anVars>>

\* Thread.join(timeout=2.0): returns when the thread has ended, or when the
\* timeout elapses with the thread still running
join_outcome(pc) == IF pc = "done" THEN "exited" ELSE "timeout"

\* a join without a timeout returns only when the thread has ended
join_returns_no_timeout(pc) == pc = "done"

\* line 247 - 248: with timeout=2.0 the call returns whether or not the
\* thread has ended
join_returns(pc) == TRUE

\* line 247
main_join_tx ==
    /\ main_pc = "join_tx"
    /\ join_returns(tx_pc)
    /\ tx_join' = join_outcome(tx_pc)
    /\ main_pc' = "join_rx"
    /\ UNCHANGED <<rx_join, rx_data_size, report, at_stop>>
    /\ UNCHANGED <<settingVars, stop_event, txVars, rxVars, anVars>>

\* line 248
main_join_rx ==
    /\ main_pc = "join_rx"
    /\ join_returns(rx_pc)
    /\ rx_join' = join_outcome(rx_pc)
    /\ main_pc' = "check_file"
    /\ UNCHANGED <<tx_join, rx_data_size, report, at_stop>>
    /\ UNCHANGED <<settingVars, stop_event, txVars, rxVars, anVars>>

\* line 251 - 253
main_check_file ==
    /\ main_pc = "check_file"
    /\ IF file_exists
         THEN main_pc' = "read_file" /\ report' = report
         ELSE main_pc' = "returned" /\ report' = "no_file"
    /\ UNCHANGED <<tx_join, rx_join, rx_data_size, at_stop>>
    /\ UNCHANGED <<settingVars, stop_event, txVars, rxVars, anVars>>

\* np.fromfile sees every sample once the writer has closed the file; while
\* the writer still holds it open, any prefix may be on disk
visible_samples ==
    IF rx_pc = "done" THEN {file_bytes \div BytesPerSample}
                      ELSE 0..(file_bytes \div BytesPerSample)

\* line 255 - 259
main_read_file ==
    /\ main_pc = "read_file"
    /\ \E n \in visible_samples :
         /\ rx_data_size' = n
         /\ IF n = 0
              THEN main_pc' = "returned" /\ report' = "empty"
              ELSE main_pc' = "analyze" /\ report' = report
    /\ UNCHANGED <<tx_join, rx_join, at_stop>>
    /\ UNCHANGED <<settingVars, stop_event, txVars, rxVars, anVars>>

\* line 262 - 272
main_analyze ==
    /\ main_pc = "analyze"
    /\ LET tx_ref_size == Min(Len(iq_data), TX_REF_SAMPLES)
           na == Min(tx_ref_size, TX_REF_SAMPLES)
           nb == Min(rx_data_size, CORR_SEARCH_SAMPLES)
       IN  IF analyze_raises(na, nb)
             THEN main_pc' = "crashed" /\ report' = report
             ELSE main_pc' = "returned" /\ report' = "summary"
    /\ UNCHANGED <<tx_join, rx_join, rx_data_size, at_stop>>
    /\ UNCHANGED <<settingVars, stop_event, txVars, rxVars, anVars>>

main == \/ main_start_tx \/ main_start_rx \/ KeyboardInterrupt
        \/ main_set_stop \/ main_join_tx \/ main_join_rx
        \/ main_check_file \/ main_read_file \/ main_analyze

Next == tx_thread_fn \/ rx_thread_fn \/ main

Spec == Init /\ [][Next]_vars

\* the formats tried: the two supported tags and an unsupported one
FileFormats == {"fc32", "sc16", "s8"}

\* main from its first line, for any file and device
InitStartup ==
    /\ LOOP_FILE \in BOOLEAN
    /\ CHUNK_SAMPLES \in 1..MaxChunk
    /\ iq_data = <<>>
    /\ path_exists \in BOOLEAN /\ FILE_FORMAT \in FileFormats
    /\ file_items \in 0..MaxLen /\ usrp_opens \in BOOLEAN
    /\ stop_event = FALSE
    /\ tx_pc = "idle" /\ idx = 0 /\ first = TRUE
    /\ md_start_of_burst = TRUE /\ md_end_of_burst = FALSE /\ tx_log = <<>>
    /\ rx_pc = "idle" /\ rx_recvs = 0 /\ rx_valid = 0
    /\ file_exists = FALSE /\ file_bytes = 0
    /\ main_pc = "load" /\ tx_join = "none" /\ rx_join = "none"
    /\ rx_data_size = 0 /\ report = "none"
    /\ at_stop = [sends |-> 0, recvs |-> 0, bytes |-> 0]
    /\ an_pc = "idle" /\ tx_samples = <<>> /\ rx_samples = <<>>
    /\ result = [status |-> "none"]

NextStartup == main_load \/ main_open_usrp \/ Next

StartupSpec == InitStartup /\ [][NextStartup]_vars

\* main runs its handler to the end; nothing is assumed of the two threads,
\* either of which may stay in its send or recv call for ever
MainLiveSpec ==
    Spec /\ WF_vars(main_set_stop) /\ WF_vars(main_join_tx)
         /\ WF_vars(main_join_rx)

\* the sample values the analysis is tried on
Samples == {<<0, 0>>, <<1, 0>>, <<-1, 0>>, <<0, 1>>}

SeqsUpTo(S, n) == UNION {[1..k -> S] : k \in 0..n}

\* analyze_correlation called on any pair of sequences, streaming not started
InitAnalyze ==
    /\ LOOP_FILE = TRUE /\ CHUNK_SAMPLES = 1 /\ iq_data = <<>>
    /\ path_exists = TRUE /\ FILE_FORMAT = "fc32"
    /\ file_items = 0 /\ usrp_opens = TRUE
    /\ stop_event = FALSE
    /\ tx_pc = "idle" /\ idx = 0 /\ first = TRUE
    /\ md_start_of_burst = TRUE /\ md_end_of_burst = FALSE /\ tx_log = <<>>
    /\ rx_pc = "idle" /\ rx_recvs = 0 /\ rx_valid = 0
    /\ file_exists = FALSE /\ file_bytes = 0
    /\ main_pc = "start_tx" /\ tx_join = "none" /\ rx_join = "none"
    /\ rx_data_size = 0 /\ report = "none"
    /\ at_stop = [sends |-> 0, recvs |-> 0, bytes |-> 0]
    /\ an_pc = "call"
    /\ tx_samples \in SeqsUpTo(Samples, MaxRef)
    /\ rx_samples \in SeqsUpTo(Samples, MaxCap)
    /\ result = [status |-> "none"]

AnalyzeSpec == InitAnalyze /\ [][analyze]_vars

\* both threads are scheduled until they return
LiveSpec == Spec /\ WF_vars(tx_thread_fn) /\ WF_vars(rx_thread_fn)

\* ------------------------------------------------------------- properties
RECURSIVE Concat(_)
\* the chunks of a sequence of send calls, one after the other
Concat(sends) == IF sends = <<>> THEN <<>>
                 ELSE Head(sends).data \o Concat(Tail(sends))

AllSendsReturned == \A i \in 1..Len(tx_log) : tx_log[i].ok

\* C1: with looping disabled, no stop request and no send failure, the data
\* chunks sent so far are the buffer up to the cursor, and once the loop has
\* ended they are the whole buffer, each sample once and in order; no chunk
\* is longer than CHUNK_SAMPLES and only the last chunk may be shorter.
C1_NonLoopingPassCoversBuffer ==
    (~LOOP_FILE /\ ~stop_event /\ AllSendsReturned) =>
        /\ tx_pc = "loop" => Concat(DataSends) = SubSeq(iq_data, 1, idx)
        /\ tx_pc \in {"finally", "done"} =>
             /\ Concat(DataSends) = iq_data
             /\ \A i \in 1..Len(DataSends) :
                   /\ Len(DataSends[i].data) <= CHUNK_SAMPLES
                   /\ i < Len(DataSends) =>
                        Len(DataSends[i].data) = CHUNK_SAMPLES

C1_Witness ==
    /\ ~LOOP_FILE /\ ~stop_event /\ AllSendsReturned
    /\ tx_pc = "done"
    /\ Len(iq_data) = 3 /\ CHUNK_SAMPLES = 2
    /\ Len(DataSends) = 2

\* C2: with looping enabled and a buffer of L >= 1 samples, in every state the
\* g-th sample handed to send (g from 0, over all data chunks of the session)
\* is buffer[g mod L].
C2_LoopingWrapsInOrder ==
    (LOOP_FILE /\ Len(iq_data) >= 1) =>
        \A g \in 1..Len(Concat(DataSends)) :
            Concat(DataSends)[g] = iq_data[((g - 1) % Len(iq_data)) + 1]

C2_Witness ==
    /\ LOOP_FILE /\ Len(iq_data) = 3 /\ CHUNK_SAMPLES = 2
    /\ Len(Concat(DataSends)) = 5

\* C3: in a transmit session exactly the first send call carries
\* start_of_burst, and exactly one send call carries end_of_burst: the
\* zero-length flush, which is the last send of the session.
C3_BurstFraming ==
    /\ \A i \in 1..Len(tx_log) :
          /\ tx_log[i].start_of_burst <=> i = 1
          /\ tx_log[i].end_of_burst =>
               i = Len(tx_log) /\ tx_log[i].data = <<>> /\ tx_pc = "done"
    /\ tx_pc = "done" =>
          tx_log # <<>> /\ tx_log[Len(tx_log)].end_of_burst

\* C4: after a data send that raised, the transmit loop is still streaming
\* (at its loop test or in a further send).
C4_SendFailureKeepsStreaming ==
    (/\ tx_log # <<>>
     /\ ~tx_log[Len(tx_log)].ok
     /\ ~tx_log[Len(tx_log)].end_of_burst) => tx_pc \in {"loop", "send"}

\* C5 as claimed: when main reads the capture file and calls
\* analyze_correlation, both loops have exited.
C5_AnalysisAfterBothLoopsExit ==
    main_pc \in {"read_file", "analyze"} => tx_pc = "done" /\ rx_pc = "done"

\* C5 as amended: when main reads the capture file and calls
\* analyze_correlation, the stop flag is set and main has waited on both
\* threads; a thread whose join returned because it ended has exited, a
\* thread whose join timed out may still be running.
C5_AnalysisAfterStopAndJoins ==
    main_pc \in {"read_file", "analyze"} =>
        /\ stop_event
        /\ tx_join \in {"exited", "timeout"}
        /\ rx_join \in {"exited", "timeout"}
        /\ tx_join = "exited" => tx_pc = "done"
        /\ rx_join = "exited" => rx_pc = "done"

C5_Witness ==
    /\ main_pc = "analyze"
    /\ tx_join = "exited"
    /\ rx_join = "timeout" /\ rx_pc = "recv"

\* C6: the capture file holds exactly the samples of the recv calls that
\* returned with error code none, and it never shrinks.
C6_CaptureSinkGrowth ==
    /\ [](file_bytes = rx_valid * BytesPerSample)
    /\ [][file_bytes' >= file_bytes]_vars

C6_Witness ==
    /\ rx_pc = "loop"
    /\ rx_recvs >= 2
    /\ file_bytes = BytesPerSample

\* a sequence of k zero samples
Zeros(k) == [i \in 1..k |-> Czero]

\* C7: for a reference with a non-zero sample and a capture made of K zero
\* samples followed by the reference, the lag returned is within one sample
\* of K.
C7_DelayedCopyLag ==
    (/\ an_pc = "done"
     /\ \E i \in 1..Len(tx_samples) : tx_samples[i] # Czero
     /\ Len(rx_samples) >= Len(tx_samples)
     /\ rx_samples = Zeros(Len(rx_samples) - Len(tx_samples)) \o tx_samples)
    => /\ result.status = "returned"
       /\ result.lag_samples - (Len(rx_samples) - Len(tx_samples)) \in {-1, 0, 1}

\* C8: with an empty reference or an empty capture, analyze_correlation
\* returns (it does not raise) and the peak it reports is zero; main does not
\* crash in the analysis.
C8_DegenerateInputsDoNotRaise ==
    /\ (an_pc = "done" /\ (tx_samples = <<>> \/ rx_samples = <<>>)) =>
           result.status = "returned" /\ result.peak_sq = 0
    /\ main_pc # "crashed"

\* C9: when main has ended by an interrupt that arrived after both threads
\* were started, the stop flag has been set and both joins have been made
\* (the analysis step was reached).
C9_InterruptLeadsToStopJoinAnalyze ==
    (main_pc = "interrupted" /\ tx_pc # "idle" /\ rx_pc # "idle") =>
        stop_event /\ tx_join # "none" /\ rx_join # "none"

C11_BoundedShutdown ==
    /\ (main_pc = "set_stop") ~>
           (main_pc \in {"check_file", "interrupted"})
    /\ [](main_pc = "join_tx" => ENABLED main_join_tx)
    /\ [](main_pc = "join_rx" => ENABLED main_join_rx)

C11_Witness ==
    /\ main_pc = "check_file"
    /\ tx_join = "timeout" /\ tx_pc = "send"
    /\ rx_join = "timeout" /\ rx_pc = "recv"

\* C12: the receive loop ends only at its loop test, with the stop flag set;
\* a recv call that adds nothing to the valid count (an error code, an
\* exception, or a count of zero) leaves the capture file as it was and takes
\* the loop back to its test, from which, without a stop, the next recv is
\* made.
C12_ReceiveLoopResilience ==
    /\ [][(rx_pc # "done" /\ rx_pc' = "done") =>
              (rx_pc = "loop" /\ stop_event)]_vars
    /\ [][(rx_pc = "recv" /\ rx_recvs' = rx_recvs + 1 /\ rx_valid' = rx_valid) =>
              (file_bytes' = file_bytes /\ rx_pc' = "loop")]_vars
    /\ [][(rx_pc = "loop" /\ rx_pc' # rx_pc /\ ~stop_event) =>
              rx_pc' = "recv"]_vars

C12_Witness ==
    /\ rx_pc = "recv" /\ ~stop_event
    /\ rx_recvs >= 1 /\ rx_valid = 0 /\ file_bytes = 0

\* what main reports when it exits with status 1, by configuration
ExpectedFailure ==
    IF ~path_exists THEN "FileNotFoundError"
    ELSE IF FILE_FORMAT = "sc16" /\ file_items % 2 = 1
           THEN "ValueError: sc16 file length not even"
    ELSE IF FILE_FORMAT \notin {"fc32", "sc16"}
           THEN "ValueError: Unsupported FILE_FORMAT"
    ELSE IF ~usrp_opens THEN "Failed to open USRP"
    ELSE "none"

\* C13: with a missing file, an sc16 file of an odd number of int16 values,
\* an unsupported format tag or a device that cannot be opened, main gets no
\* further than the exit with status 1, which reports that error; no thread is
\* started and no send or recv is made.
C13_ConfigErrorsStopBeforeStreaming ==
    /\ ExpectedFailure # "none" =>
          /\ main_pc \in {"load", "open_usrp", "exit_1"}
          /\ tx_pc = "idle" /\ rx_pc = "idle"
          /\ tx_log = <<>> /\ rx_recvs = 0 /\ ~file_exists
    /\ main_pc = "exit_1" =>
          ExpectedFailure # "none" /\ report = ExpectedFailure

C13_Witness ==
    /\ main_pc = "exit_1"
    /\ path_exists /\ FILE_FORMAT = "sc16" /\ file_items = 3
    /\ report = "ValueError: sc16 file length not even"

\* C14: once the stop flag is set, the transmit loop hands at most one more
\* data chunk to send, and that chunk is whole (CHUNK_SAMPLES samples, or
\* the rest of the buffer); the receive loop makes at most one more recv call
\* and so appends at most one more chunk to the capture file.
C14_StopAtChunkBoundary ==
    stop_event =>
        /\ Len(DataSends) - at_stop.sends <= 1
        /\ Len(DataSends) > at_stop.sends =>
             LET d == DataSends[Len(DataSends)].data
             IN  \/ Len(d) = CHUNK_SAMPLES
                 \/ d # <<>> /\ d[Len(d)] = total
                 \/ d = <<>> /\ total = 0
        /\ rx_recvs - at_stop.recvs <= 1
        /\ file_bytes - at_stop.bytes <= CHUNK_SAMPLES * BytesPerSample

C14_Witness ==
    /\ stop_event /\ tx_pc = "done" /\ rx_pc = "done"
    /\ Len(DataSends) = at_stop.sends + 1
    /\ at_stop.sends >= 1
    /\ file_bytes > at_stop.bytes

\* C15 as claimed: for non-empty reference and capture, the window of the
\* capture starts at the estimated lag, lies within the capture, is not
\* empty and not longer than the reference, and the residual is the
\* difference of two sequences of the same length.
C15_WindowStartsAtLag ==
    (an_pc = "done" /\ tx_samples # <<>> /\ rx_samples # <<>>) =>
        /\ result.status = "returned"
        /\ result.start = result.lag_samples
        /\ 0 <= result.start
        /\ result.start + result.seg_len <= Len(rx_samples)
        /\ result.seg_len >= 1
        /\ result.seg_len <= Len(tx_samples)
        /\ result.ref_len = result.seg_len

\* C15 as amended: the window starts at max(0, lag), that is at the
\* estimated lag when it is not negative and at the start of the capture
\* otherwise; it ends at min(start + na, nb), lies within the capture, is not
\* empty and not longer than the reference, and the residual is the
\* difference of two sequences of the same length.
C15_WindowInBounds ==
    (an_pc = "done" /\ tx_samples # <<>> /\ rx_samples # <<>>) =>
        /\ result.status = "returned"
        /\ result.start = Max(0, result.lag_samples)
        /\ 0 <= result.start
        /\ result.seg_len =
               Min(result.start + Len(tx_samples), Len(rx_samples)) - result.start
        /\ result.start + result.seg_len <= Len(rx_samples)
        /\ result.seg_len >= 1
        /\ result.seg_len <= Len(tx_samples)
        /\ result.ref_len = result.seg_len

C15_Witness ==
    /\ an_pc = "done" /\ result.status = "returned"
    /\ Len(tx_samples) = 3 /\ Len(rx_samples) = 2
    /\ result.lag_samples = 1
    /\ result.start = 1 /\ result.seg_len = 1

IsPowerOfTwo(n) == \E e \in 0..n : pow2(e) = n

\* C16: for non-empty inputs the transform length n is a power of two, is at
\* least na + nb - 1, is the smallest such power (n/2 < na + nb - 1 when
\* n > 1), and the correlation returned has exactly na + nb - 1 samples.
C16_CorrelationLength ==
    (an_pc = "done" /\ tx_samples # <<>> /\ rx_samples # <<>>) =>
        LET m == Len(tx_samples) + Len(rx_samples) - 1
        IN  /\ result.status = "returned"
            /\ IsPowerOfTwo(result.n)
            /\ result.n >= m
            /\ result.n > 1 => 2 * m > result.n
            /\ result.corr_len = m

C16_Witness ==
    /\ an_pc = "done" /\ result.status = "returned"
    /\ Len(tx_samples) = 3 /\ Len(rx_samples) = 3
    /\ result.n = 8 /\ result.corr_len = 5

\* C17: at every iteration boundary of the transmit loop 0 <= idx <= L; every
\* data chunk handed to send has between 1 and CHUNK_SAMPLES samples, and the
\* only zero-length send is the end-of-burst flush.
C17_CursorAndChunkSize ==
    /\ tx_pc = "loop" => (0 <= idx /\ idx <= total)
    /\ \A i \in 1..Len(tx_log) :
          IF tx_log[i].end_of_burst
            THEN tx_log[i].data = <<>>
            ELSE /\ Len(tx_log[i].data) >= 1
                 /\ Len(tx_log[i].data) <= CHUNK_SAMPLES

====
